---------------------------- MODULE Spec2Model ----------------------------
(***************************************************************************)
(* A model of inf-rs, a streaming parser of Windows INF files.             *)
(*                                                                         *)
(*   bytes -> decoder -> LineReader -> SectionReader -> sections           *)
(*                                                                         *)
(* Text is a sequence of Unicode scalar values (naturals); a byte is a     *)
(* natural below 256.  The Rust code indexes strings by UTF-8 byte offset, *)
(* so the string helpers below keep the byte length of every character.    *)
(***************************************************************************)
EXTENDS Integers, Sequences, FiniteSets, TLC

(***************************************************************************)
(* Characters the code names.                                              *)
(***************************************************************************)
CR == 13
LF == 10
TAB == 9
SPACE == 32
QUOTE == 34
PERCENT == 37
SEMICOLON == 59
EQUALS == 61
LBRACKET == 91
BACKSLASH == 92
RBRACKET == 93

(***************************************************************************)
(* Bounds of the model.                                                    *)
(***************************************************************************)
\* total number of characters fed to a LineReader in one behaviour
MaxFed == 6
\* number of read_section calls in one behaviour
MaxCalls == 4
\* number of parse calls on one WinInfFile in one behaviour
MaxParses == 2
MaxNameLen == 3

(***************************************************************************)
(* Strings.                                                                *)
(***************************************************************************)
\* a string literal of the model: one character per one-letter string
Code ==
    [c \in {"a", "b", "k", "v", "w", "A", "B", " ", "\t", ";", "=", "[", "]",
            "\"", "\\", "%", "\r", "\n"} |->
        CASE c = "a" -> 97 [] c = "b" -> 98 [] c = "k" -> 107 [] c = "v" -> 118
          [] c = "w" -> 119 [] c = "A" -> 65 [] c = "B" -> 66
          [] c = " " -> SPACE [] c = "\t" -> TAB [] c = ";" -> SEMICOLON
          [] c = "=" -> EQUALS [] c = "[" -> LBRACKET [] c = "]" -> RBRACKET
          [] c = "\"" -> QUOTE [] c = "\\" -> BACKSLASH [] c = "%" -> PERCENT
          [] c = "\r" -> CR [] c = "\n" -> LF]

S(letters) == [i \in 1..Len(letters) |-> Code[letters[i]]]

\* all strings over alphabet of length 0..n
RECURSIVE StringsUpTo(_, _)
StringsUpTo(alphabet, n) ==
    IF n = 0 THEN {<<>>}
    ELSE LET shorter == StringsUpTo(alphabet, n - 1)
         IN  shorter \cup {Append(s, c) : s \in shorter, c \in alphabet}

\* concatenation of a sequence of strings
RECURSIVE Concat(_)
Concat(ss) == IF ss = <<>> THEN <<>> ELSE Head(ss) \o Concat(Tail(ss))

(***************************************************************************)
(* The Rust string operations the code uses.  Offsets are UTF-8 byte        *)
(* offsets, counted from 0, as in Rust.                                    *)
(***************************************************************************)
\* char::is_whitespace, the White_Space characters that str::trim removes
IsWhitespace(c) ==
    \/ c \in 9..13
    \/ c \in {32, 133, 160, 5760, 8232, 8233, 8239, 8287, 12288}
    \/ c \in 8192..8202

\* char::len_utf8
LenUtf8(c) == IF c < 128 THEN 1 ELSE IF c < 2048 THEN 2 ELSE IF c < 65536 THEN 3 ELSE 4

\* str::len: the length in bytes
RECURSIVE ByteLen(_)
ByteLen(s) == IF s = <<>> THEN 0 ELSE LenUtf8(Head(s)) + ByteLen(Tail(s))

\* the byte offset of the i-th character of s (i from 1)
ByteOffset(s, i) == ByteLen(SubSeq(s, 1, i - 1))

\* s[from..to], both byte offsets on character boundaries
Slice(s, from, to) ==
    LET keep == {i \in 1..Len(s) : ByteOffset(s, i) >= from /\ ByteOffset(s, i) < to}
    IN  IF keep = {} THEN <<>>
        ELSE SubSeq(s, CHOOSE i \in keep : \A j \in keep : i <= j,
                       CHOOSE i \in keep : \A j \in keep : j <= i)

\* str::trim
RECURSIVE TrimStart(_)
TrimStart(s) ==
    IF s # <<>> /\ IsWhitespace(Head(s)) THEN TrimStart(Tail(s)) ELSE s

RECURSIVE TrimEnd(_)
TrimEnd(s) ==
    IF s # <<>> /\ IsWhitespace(s[Len(s)]) THEN TrimEnd(SubSeq(s, 1, Len(s) - 1)) ELSE s

Trim(s) == TrimEnd(TrimStart(s))

StartsWith(s, c) == s # <<>> /\ s[1] = c

EndsWith(s, c) == s # <<>> /\ s[Len(s)] = c

Contains(s, c) == \E i \in 1..Len(s) : s[i] = c

\* the position (from 1) of the first c in s; 0 when s has no c
FirstIndex(s, c) ==
    IF Contains(s, c)
    THEN CHOOSE i \in 1..Len(s) : s[i] = c /\ \A j \in 1..(i - 1) : s[j] # c
    ELSE 0

\* str::find(char): the byte offset of the first c, as Some or None
Find(s, c) ==
    IF Contains(s, c)
    THEN [some |-> TRUE, idx |-> ByteOffset(s, FirstIndex(s, c))]
    ELSE [some |-> FALSE, idx |-> 0]

\* str::split_once(char)
SplitOnce(s, c) ==
    IF Contains(s, c)
    THEN [some |-> TRUE,
          first |-> SubSeq(s, 1, FirstIndex(s, c) - 1),
          second |-> SubSeq(s, FirstIndex(s, c) + 1, Len(s))]
    ELSE [some |-> FALSE, first |-> <<>>, second |-> <<>>]

\* str::chars().nth(n), n from 0
CharsNth(s, n) ==
    IF n + 1 <= Len(s) THEN [some |-> TRUE, c |-> s[n + 1]] ELSE [some |-> FALSE, c |-> 0]

(***************************************************************************)
(* LineReader (lib.rs 68-127).                                             *)
(***************************************************************************)
\* One iteration of the loop of read_to_line over character c.  st holds the
\* locals found_cr and new_line, self.lines, and err once the loop returned Err.
ReadToLineStepKeepCr(st, c) ==
    IF st.err THEN st
    ELSE IF st.found_cr /\ c # LF THEN [st EXCEPT !.err = TRUE]
    ELSE IF st.found_cr /\ c = LF THEN
        IF st.new_line # <<>>
        THEN [st EXCEPT !.lines = Append(st.lines, st.new_line),
                        !.new_line = <<>>, !.found_cr = FALSE]
        ELSE [st EXCEPT !.found_cr = FALSE]
    ELSE IF c = CR THEN
        [st EXCEPT !.found_cr = TRUE, !.new_line = Append(st.new_line, c)]
    ELSE IF c = LF THEN
        IF st.new_line # <<>>
        THEN [st EXCEPT !.lines = Append(st.lines, st.new_line), !.new_line = <<>>]
        ELSE st
    ELSE [st EXCEPT !.new_line = Append(st.new_line, c)]

ReadToLineStepNoCollapse(st, c) ==
    IF st.err THEN st
    ELSE IF st.found_cr /\ c # LF THEN [st EXCEPT !.err = TRUE]
    ELSE IF st.found_cr /\ c = LF THEN
        [st EXCEPT !.lines = Append(st.lines, st.new_line),
                   !.new_line = <<>>, !.found_cr = FALSE]
    ELSE IF c = CR THEN [st EXCEPT !.found_cr = TRUE]
    ELSE IF c = LF THEN
        [st EXCEPT !.lines = Append(st.lines, st.new_line), !.new_line = <<>>]
    ELSE [st EXCEPT !.new_line = Append(st.new_line, c)]

ReadToLineStep(st, c) ==
    IF st.err THEN st
    \* If LF did not follow CR, fail
    ELSE IF st.found_cr /\ c # LF THEN [st EXCEPT !.err = TRUE]
    \* If CRLF encountered, read to line
    ELSE IF st.found_cr /\ c = LF THEN
        IF st.new_line # <<>>
        THEN [st EXCEPT !.lines = Append(st.lines, st.new_line),
                        !.new_line = <<>>, !.found_cr = FALSE]
        ELSE [st EXCEPT !.found_cr = FALSE]
    \* If CR encountered, set flag
    ELSE IF c = CR THEN [st EXCEPT !.found_cr = TRUE]
    \* If \n encountered, read to line
    ELSE IF c = LF THEN
        IF st.new_line # <<>>
        THEN [st EXCEPT !.lines = Append(st.lines, st.new_line), !.new_line = <<>>]
        ELSE st
    \* Add each char to the new line
    ELSE [st EXCEPT !.new_line = Append(st.new_line, c)]

RECURSIVE ReadToLineLoop(_, _, _)
ReadToLineLoop(st, text, i) ==
    IF i > Len(text) THEN st
    ELSE ReadToLineLoop(ReadToLineStep(st, text[i]), text, i + 1)

\* read_to_line on a reader [remaining_string, lines]: the reader after the
\* call and whether the call returned Err.  found_cr and new_line are locals
\* of the call; an Err return leaves remaining_string as it was but keeps the
\* lines already pushed.
ReadToLineDropRemaining(reader, line_part) ==
    LET st == ReadToLineLoop(
                  [found_cr |-> FALSE, new_line |-> <<>>,
                   lines |-> reader.lines, err |-> FALSE],
                  line_part, 1)
    IN  [err |-> st.err,
         reader |-> [remaining_string |->
                         IF st.err THEN reader.remaining_string ELSE st.new_line,
                     lines |-> st.lines]]

ReadToLineCrPending(reader, line_part) ==
    LET st == ReadToLineLoop(
                  [found_cr |-> FALSE, new_line |-> <<>>,
                   lines |-> reader.lines, err |-> FALSE],
                  reader.remaining_string \o line_part, 1)
        err == st.err \/ st.found_cr
    IN  [err |-> err,
         reader |-> [remaining_string |->
                         IF err THEN reader.remaining_string ELSE st.new_line,
                     lines |-> st.lines]]

ReadToLine(reader, line_part) ==
    LET st == ReadToLineLoop(
                  [found_cr |-> FALSE, new_line |-> <<>>,
                   lines |-> reader.lines, err |-> FALSE],
                  reader.remaining_string \o line_part, 1)
    IN  [err |-> st.err,
         reader |-> [remaining_string |->
                         IF st.err THEN reader.remaining_string ELSE st.new_line,
                     lines |-> st.lines]]

\* take_lines: the drained lines and the reader left behind
TakeLinesKeeping(reader) == [taken |-> reader.lines, reader |-> reader]

TakeLinesDroppingPartial(reader) ==
    [taken |-> reader.lines, reader |-> [remaining_string |-> <<>>, lines |-> <<>>]]

TakeLines(reader) ==
    [taken |-> reader.lines, reader |-> [reader EXCEPT !.lines = <<>>]]

\* finalize pushes a non-empty remaining_string (and does not clear it)
FinalizeAlwaysPush(reader) ==
    [reader EXCEPT !.lines = Append(reader.lines, reader.remaining_string)]

Finalize(reader) ==
    IF reader.remaining_string # <<>>
    THEN [reader EXCEPT !.lines = Append(reader.lines, reader.remaining_string)]
    ELSE reader

LineReaderDefault == [remaining_string |-> <<>>, lines |-> <<>>]


(***************************************************************************)
(* The data model (types.rs).                                              *)
(***************************************************************************)
Raw(text) == [variant |-> "Raw", text |-> text]

\* Option<InfValue>: Some(value); Absent is None
Absent(value) == [variant |-> "None"]

Some(value) == [variant |-> "Some", value |-> value]

KeyValue(key, value) == [variant |-> "KeyValue", key |-> key, value |-> value]

OnlyValue(value) == [variant |-> "OnlyValue", value |-> value]

InfSection(name, entries) == [name |-> name, entries |-> entries]

\* HashMap::new()
NoSections == [name \in {} |-> InfSection(name, <<>>)]

(***************************************************************************)
(* validate_section_name (lib.rs 358-391): "Ok" or the error text.         *)
(***************************************************************************)
CountOf(s, c) == Cardinality({i \in 1..Len(s) : s[i] = c})

InvalidUnquotedChars == {CR, LF, QUOTE, SPACE, TAB, LBRACKET, RBRACKET, SEMICOLON}

ValidateRejectingEmpty(name) ==
    IF name = <<>> THEN "empty section name"
    ELSE IF StartsWith(name, QUOTE) THEN
        IF ~EndsWith(name, QUOTE) THEN "invalid quoted section name"
        ELSE IF Contains(name, RBRACKET) THEN "invalid ] in the quoted section name"
        ELSE "Ok"
    ELSE
        IF EndsWith(name, BACKSLASH) THEN "invalid \\ at the end of section name"
        ELSE IF CountOf(name, PERCENT) % 2 # 0
            THEN "odd number of % in the section name, expected pairs"
        ELSE IF \E i \in 1..Len(name) : name[i] \in InvalidUnquotedChars
            THEN "contains invalid chars in unquoted section name"
        ELSE "Ok"

ValidateIgnoringPercent(name) ==
    IF StartsWith(name, QUOTE) THEN
        IF ~EndsWith(name, QUOTE) THEN "invalid quoted section name"
        ELSE IF Contains(name, RBRACKET) THEN "invalid ] in the quoted section name"
        ELSE "Ok"
    ELSE
        IF EndsWith(name, BACKSLASH) THEN "invalid \\ at the end of section name"
        ELSE IF \E i \in 1..Len(name) : name[i] \in InvalidUnquotedChars
            THEN "contains invalid chars in unquoted section name"
        ELSE "Ok"

validate_section_name(name) ==
    IF StartsWith(name, QUOTE) THEN
        IF ~EndsWith(name, QUOTE) THEN "invalid quoted section name"
        ELSE IF Contains(name, RBRACKET) THEN "invalid ] in the quoted section name"
        ELSE "Ok"
    ELSE
        IF EndsWith(name, BACKSLASH) THEN "invalid \\ at the end of section name"
        ELSE IF CountOf(name, PERCENT) % 2 # 0
            THEN "odd number of % in the section name, expected pairs"
        ELSE IF \E i \in 1..Len(name) : name[i] \in InvalidUnquotedChars
            THEN "contains invalid chars in unquoted section name"
        ELSE "Ok"

(***************************************************************************)
(* SectionReader::read_section (lib.rs 137-258).  Each operator gives      *)
(* [result, reader, sections]: what the call returns, and the reader       *)
(* [last_section_name, last_entry_key, last_entry_value_contd] and the     *)
(* section map it leaves.                                                  *)
(***************************************************************************)
SectionReaderDefault ==
    [last_section_name |-> <<>>, last_entry_key |-> <<>>, last_entry_value_contd |-> <<>>]

Returned(result, reader, sections) ==
    [result |-> result, reader |-> reader, sections |-> sections]

\* sections.insert(name, InfSection{name, entries: vec![]})
InsertSectionMerging(sections, name) ==
    [n \in DOMAIN sections \cup {name} |->
        IF n \in DOMAIN sections THEN sections[n] ELSE InfSection(name, <<>>)]

InsertSection(sections, name) ==
    [n \in DOMAIN sections \cup {name} |->
        IF n = name THEN InfSection(name, <<>>) ELSE sections[n]]

\* if let Some(section) = sections.get_mut(name) { section.entries.push(entry) }
PushEntryInFront(sections, name, entry) ==
    IF name \in DOMAIN sections
    THEN [sections EXCEPT ![name].entries = <<entry>> \o @]
    ELSE sections

PushEntry(sections, name, entry) ==
    IF name \in DOMAIN sections
    THEN [sections EXCEPT ![name].entries = Append(@, entry)]
    ELSE sections

\* lines 147-157: a line that starts with [ and ends with ]
ReadHeader(reader, sections, line) ==
    LET section_name == Slice(line, 1, ByteLen(line) - 1)
    IN  IF validate_section_name(section_name) # "Ok"
        THEN Returned("InvalidSectionName", reader, sections)
        ELSE Returned("Ok",
                      [reader EXCEPT !.last_section_name = section_name],
                      InsertSection(sections, section_name))

\* lines 166-201: key = value, the trimmed value starting with "
ReadQuotedValueRetainingBackslash(reader, sections, key, value) ==
    LET found == Find(Slice(value, 1, ByteLen(value)), QUOTE)
        end_double_quote_idx == found.idx + 1
        after == CharsNth(value, end_double_quote_idx + 1)
        committed ==
            Returned("Ok",
                     [reader EXCEPT !.last_entry_value_contd = <<>>],
                     PushEntry(sections, reader.last_section_name,
                               KeyValue(key, Some(Raw(Slice(value, 1, end_double_quote_idx))))))
    IN  IF ~found.some THEN Returned("InvalidQuotedValue", reader, sections)
        ELSE IF ByteLen(value) - 1 > end_double_quote_idx /\ after.some THEN
            IF after.c = BACKSLASH THEN
                Returned("Ok",
                         [reader EXCEPT
                             !.last_entry_key = key,
                             !.last_entry_value_contd =
                                 Append(Slice(value, 1, end_double_quote_idx), BACKSLASH)],
                         sections)
            ELSE IF after.c # SEMICOLON THEN
                Returned("InvalidContinuation", reader, sections)
            ELSE committed
        ELSE committed

ReadQuotedValueClearingFirst(reader, sections, key, value) ==
    LET found == Find(Slice(value, 1, ByteLen(value)), QUOTE)
        end_double_quote_idx == found.idx + 1
        after == CharsNth(value, end_double_quote_idx + 1)
        cleared == [reader EXCEPT !.last_entry_value_contd = <<>>]
        committed ==
            Returned("Ok", cleared,
                     PushEntry(sections, reader.last_section_name,
                               KeyValue(key, Some(Raw(Slice(value, 1, end_double_quote_idx))))))
    IN  IF ~found.some THEN Returned("InvalidQuotedValue", reader, sections)
        ELSE IF ByteLen(value) - 1 > end_double_quote_idx /\ after.some THEN
            IF after.c = BACKSLASH THEN
                Returned("Ok",
                         [reader EXCEPT
                             !.last_entry_key = key,
                             !.last_entry_value_contd = Slice(value, 1, end_double_quote_idx)],
                         sections)
            ELSE IF after.c # SEMICOLON THEN
                Returned("InvalidContinuation", cleared, sections)
            ELSE committed
        ELSE committed

ReadQuotedValueUnclosed(reader, sections, key, value) ==
    LET found == Find(Slice(value, 1, ByteLen(value)), QUOTE)
        end_double_quote_idx == IF found.some THEN found.idx + 1 ELSE ByteLen(value)
        after == CharsNth(value, end_double_quote_idx + 1)
        committed ==
            Returned("Ok",
                     [reader EXCEPT !.last_entry_value_contd = <<>>],
                     PushEntry(sections, reader.last_section_name,
                               KeyValue(key, Some(Raw(Slice(value, 1, end_double_quote_idx))))))
    IN  IF ByteLen(value) - 1 > end_double_quote_idx /\ after.some THEN
            IF after.c = BACKSLASH THEN
                Returned("Ok",
                         [reader EXCEPT
                             !.last_entry_key = key,
                             !.last_entry_value_contd = Slice(value, 1, end_double_quote_idx)],
                         sections)
            ELSE IF after.c # SEMICOLON THEN
                Returned("InvalidContinuation", reader, sections)
            ELSE committed
        ELSE committed

ReadQuotedValue(reader, sections, key, value) ==
    LET found == Find(Slice(value, 1, ByteLen(value)), QUOTE)
        \* +1 to include the first double quote
        end_double_quote_idx == found.idx + 1
        after == CharsNth(value, end_double_quote_idx + 1)
        committed ==
            Returned("Ok",
                     [reader EXCEPT !.last_entry_value_contd = <<>>],
                     PushEntry(sections, reader.last_section_name,
                               KeyValue(key, Some(Raw(Slice(value, 1, end_double_quote_idx))))))
    IN  IF ~found.some THEN Returned("InvalidQuotedValue", reader, sections)
        ELSE IF ByteLen(value) - 1 > end_double_quote_idx /\ after.some THEN
            IF after.c = BACKSLASH THEN
                Returned("Ok",
                         [reader EXCEPT
                             !.last_entry_key = key,
                             !.last_entry_value_contd = Slice(value, 1, end_double_quote_idx)],
                         sections)
            ELSE IF after.c # SEMICOLON THEN
                Returned("InvalidContinuation", reader, sections)
            ELSE committed
        ELSE committed

\* lines 206-209: value containing comments at the end
WithoutCommentUntrimmed(value) ==
    LET parts == SplitOnce(value, SEMICOLON)
    IN  IF parts.some THEN parts.first ELSE value

WithoutComment(value) ==
    LET parts == SplitOnce(value, SEMICOLON)
    IN  IF parts.some THEN Trim(parts.first) ELSE value

\* lines 203-233: key = value, the trimmed value not starting with "
ReadUnquotedValue(reader, sections, key, untruncated) ==
    LET value == WithoutComment(untruncated)
        first_backslash_idx == Find(value, BACKSLASH).idx
    IN  IF EndsWith(value, BACKSLASH) THEN
            IF first_backslash_idx > 0 THEN
                Returned("Ok",
                         [reader EXCEPT
                             !.last_entry_value_contd = Slice(value, 0, first_backslash_idx),
                             !.last_entry_key = key],
                         sections)
            ELSE
                Returned("Ok",
                         [reader EXCEPT !.last_entry_value_contd = <<>>,
                                        !.last_entry_key = <<>>],
                         sections)
        ELSE
            Returned("Ok",
                     [reader EXCEPT !.last_entry_value_contd = <<>>,
                                    !.last_entry_key = <<>>],
                     PushEntry(sections, reader.last_section_name,
                               KeyValue(key, Some(Raw(value)))))

\* lines 236-255: a line without =
ReadBareLineSeparated(reader, sections, line) ==
    LET value == Trim(line)
    IN  IF reader.last_entry_value_contd # <<>> THEN
            Returned("Ok",
                     [reader EXCEPT !.last_entry_value_contd = <<>>,
                                    !.last_entry_key = <<>>],
                     PushEntry(sections, reader.last_section_name,
                               KeyValue(reader.last_entry_key,
                                        Some(Raw(reader.last_entry_value_contd
                                                     \o <<SPACE>> \o value)))))
        ELSE
            Returned("Ok", reader,
                     PushEntry(sections, reader.last_section_name, OnlyValue(Raw(value))))

ReadBareLineSkippingBlank(reader, sections, line) ==
    LET value == Trim(line)
    IN  IF value = <<>> THEN Returned("Ok", reader, sections)
        ELSE IF reader.last_entry_value_contd # <<>> THEN
            Returned("Ok",
                     [reader EXCEPT !.last_entry_value_contd = <<>>,
                                    !.last_entry_key = <<>>],
                     PushEntry(sections, reader.last_section_name,
                               KeyValue(reader.last_entry_key,
                                        Some(Raw(reader.last_entry_value_contd \o value)))))
        ELSE
            Returned("Ok", reader,
                     PushEntry(sections, reader.last_section_name, OnlyValue(Raw(value))))

ReadBareLineChained(reader, sections, line) ==
    LET value == Trim(line)
    IN  IF reader.last_entry_value_contd # <<>> THEN
            IF EndsWith(value, BACKSLASH) THEN
                Returned("Ok",
                         [reader EXCEPT !.last_entry_value_contd =
                                            @ \o SubSeq(value, 1, Len(value) - 1)],
                         sections)
            ELSE
                Returned("Ok",
                         [reader EXCEPT !.last_entry_value_contd = <<>>,
                                        !.last_entry_key = <<>>],
                         PushEntry(sections, reader.last_section_name,
                                   KeyValue(reader.last_entry_key,
                                            Some(Raw(reader.last_entry_value_contd \o value)))))
        ELSE
            Returned("Ok", reader,
                     PushEntry(sections, reader.last_section_name, OnlyValue(Raw(value))))

ReadBareLine(reader, sections, line) ==
    LET value == Trim(line)
    IN  IF reader.last_entry_value_contd # <<>> THEN
            Returned("Ok",
                     [reader EXCEPT !.last_entry_value_contd = <<>>,
                                    !.last_entry_key = <<>>],
                     PushEntry(sections, reader.last_section_name,
                               KeyValue(reader.last_entry_key,
                                        Some(Raw(reader.last_entry_value_contd \o value)))))
        ELSE
            Returned("Ok", reader,
                     PushEntry(sections, reader.last_section_name, OnlyValue(Raw(value))))

\* line 160: entries are read only under a section
EntriesReadAlways(reader) == TRUE

EntriesRead(reader) == reader.last_section_name # <<>>

ReadSectionFlushing(reader, sections, untrimmed) ==
    LET line == Trim(untrimmed)
        pair == SplitOnce(line, EQUALS)
        flushed ==
            IF reader.last_entry_value_contd # <<>>
            THEN PushEntry(sections, reader.last_section_name,
                           KeyValue(reader.last_entry_key,
                                    Some(Raw(reader.last_entry_value_contd))))
            ELSE sections
    IN  IF StartsWith(line, SEMICOLON) THEN Returned("Ok", reader, sections)
        ELSE IF StartsWith(line, LBRACKET) /\ EndsWith(line, RBRACKET)
            THEN ReadHeader(reader, sections, line)
        ELSE IF EntriesRead(reader) THEN
            IF pair.some THEN
                IF StartsWith(Trim(pair.second), QUOTE)
                THEN ReadQuotedValue(reader, flushed, Trim(pair.first), Trim(pair.second))
                ELSE ReadUnquotedValue(reader, flushed, Trim(pair.first), Trim(pair.second))
            ELSE ReadBareLine(reader, sections, line)
        ELSE Returned("Ok", reader, sections)

ReadSectionCommentClears(reader, sections, untrimmed) ==
    LET line == Trim(untrimmed)
        pair == SplitOnce(line, EQUALS)
    IN  IF StartsWith(line, SEMICOLON)
            THEN Returned("Ok",
                          [reader EXCEPT !.last_entry_value_contd = <<>>,
                                         !.last_entry_key = <<>>],
                          sections)
        ELSE IF StartsWith(line, LBRACKET) /\ EndsWith(line, RBRACKET)
            THEN ReadHeader(reader, sections, line)
        ELSE IF EntriesRead(reader) THEN
            IF pair.some THEN
                IF StartsWith(Trim(pair.second), QUOTE)
                THEN ReadQuotedValue(reader, sections, Trim(pair.first), Trim(pair.second))
                ELSE ReadUnquotedValue(reader, sections, Trim(pair.first), Trim(pair.second))
            ELSE ReadBareLine(reader, sections, line)
        ELSE Returned("Ok", reader, sections)

read_section(reader, sections, untrimmed) ==
    \* trim spaces and tabs
    LET line == Trim(untrimmed)
        pair == SplitOnce(line, EQUALS)
    IN  \* exclude comments
        IF StartsWith(line, SEMICOLON) THEN Returned("Ok", reader, sections)
        \* section name
        ELSE IF StartsWith(line, LBRACKET) /\ EndsWith(line, RBRACKET)
            THEN ReadHeader(reader, sections, line)
        \* entries
        ELSE IF EntriesRead(reader) THEN
            IF pair.some THEN
                IF StartsWith(Trim(pair.second), QUOTE)
                THEN ReadQuotedValue(reader, sections, Trim(pair.first), Trim(pair.second))
                ELSE ReadUnquotedValue(reader, sections, Trim(pair.first), Trim(pair.second))
            ELSE ReadBareLine(reader, sections, line)
        ELSE Returned("Ok", reader, sections)

(***************************************************************************)
(* Decoding (lib.rs 289, 309-329).  The calls into std and encoding_rs are *)
(* modelled by what they return for the bytes of the model's files, which  *)
(* hold no UTF-16 surrogate and no UTF-8 sequence longer than three bytes. *)
(***************************************************************************)
REPLACEMENT_CHARACTER == 65533

\* Encoding::for_bom(buffer): the encoding whose byte-order mark starts buffer
ForBom(buffer) ==
    IF Len(buffer) >= 3 /\ SubSeq(buffer, 1, 3) = <<239, 187, 191>> THEN "UTF-8"
    ELSE IF Len(buffer) >= 2 /\ SubSeq(buffer, 1, 2) = <<255, 254>> THEN "UTF-16LE"
    ELSE IF Len(buffer) >= 2 /\ SubSeq(buffer, 1, 2) = <<254, 255>> THEN "UTF-16BE"
    ELSE "none"

IsContinuationByte(b) == b \in 128..191

\* the second byte of a three-byte sequence that starts with lead
IsSecondOfThree(lead, b) ==
    IF lead = 224 THEN b \in 160..191
    ELSE IF lead = 237 THEN b \in 128..159
    ELSE b \in 128..191

\* String::from_utf8_lossy(bytes): each call decodes its bytes on their own
RECURSIVE FromUtf8Lossy(_)
FromUtf8Lossy(bytes) ==
    IF bytes = <<>> THEN <<>>
    ELSE IF bytes[1] < 128 THEN <<bytes[1]>> \o FromUtf8Lossy(Tail(bytes))
    ELSE IF bytes[1] \in 194..223 /\ Len(bytes) >= 2 /\ IsContinuationByte(bytes[2])
        THEN <<(bytes[1] - 192) * 64 + (bytes[2] - 128)>>
                 \o FromUtf8Lossy(SubSeq(bytes, 3, Len(bytes)))
    ELSE IF bytes[1] \in 224..239 /\ Len(bytes) >= 2 /\ IsSecondOfThree(bytes[1], bytes[2])
        THEN IF Len(bytes) >= 3 /\ IsContinuationByte(bytes[3])
             THEN <<(bytes[1] - 224) * 4096 + (bytes[2] - 128) * 64 + (bytes[3] - 128)>>
                      \o FromUtf8Lossy(SubSeq(bytes, 4, Len(bytes)))
             \* a truncated sequence is replaced as a whole
             ELSE <<REPLACEMENT_CHARACTER>> \o FromUtf8Lossy(SubSeq(bytes, 3, Len(bytes)))
    ELSE <<REPLACEMENT_CHARACTER>> \o FromUtf8Lossy(Tail(bytes))

\* String::from_utf16_lossy(units), for units that are no surrogates
FromUtf16Lossy(units) ==
    [i \in 1..Len(units) |->
        IF units[i] \in 55296..57343 THEN REPLACEMENT_CHARACTER ELSE units[i]]

\* UTF_16LE.new_decoder(): a decoder that sniffs a byte-order mark at the start
\* of its stream and keeps the first byte of a code unit split between calls
NewDecoder == [life_cycle |-> "AtStart", encoding |-> "UTF-16LE", pending |-> <<>>]

RECURSIVE Utf16Units(_, _)
Utf16Units(bytes, encoding) ==
    IF Len(bytes) < 2 THEN <<>>
    ELSE <<IF encoding = "UTF-16BE" THEN bytes[1] * 256 + bytes[2]
           ELSE bytes[1] + bytes[2] * 256>>
             \o Utf16Units(SubSeq(bytes, 3, Len(bytes)), encoding)

\* decoder.decode_to_utf16(src, dst, last) for a dst of capacity code units:
\* the decoder after the call and the code units written.  A decoder that was
\* given last = TRUE has finished, and using it again panics.
DecodeToUtf16(decoder, src, capacity, last) ==
    IF decoder.life_cycle = "Finished" /\ src # <<>>
    THEN [panic |-> TRUE, decoder |-> decoder, written |-> <<>>]
    ELSE
    LET sniffed == IF decoder.life_cycle = "AtStart" THEN ForBom(src) ELSE "none"
        encoding == IF sniffed = "none" THEN decoder.encoding ELSE sniffed
        body == IF sniffed = "UTF-8" THEN SubSeq(src, 4, Len(src))
                ELSE IF sniffed = "none" THEN src
                ELSE SubSeq(src, 3, Len(src))
        bytes == decoder.pending \o body
        all == IF encoding = "UTF-8" THEN FromUtf8Lossy(bytes)
               ELSE Utf16Units(bytes, encoding)
        odd == encoding # "UTF-8" /\ Len(bytes) % 2 = 1
        units == IF odd /\ last THEN Append(all, REPLACEMENT_CHARACTER) ELSE all
    IN  [panic |-> FALSE,
         decoder |-> [life_cycle |-> IF last /\ Len(units) <= capacity
                                     THEN "Finished" ELSE "Converting",
                      encoding |-> encoding,
                      pending |-> IF odd /\ ~last /\ Len(units) <= capacity
                                  THEN <<bytes[Len(bytes)]>> ELSE <<>>],
         written |-> SubSeq(units, 1, IF Len(units) <= capacity
                                      THEN Len(units) ELSE capacity)]

(***************************************************************************)
(* WinInfFile::parse (lib.rs 283-355).  A parse in progress is             *)
(* [bom_detected, decoder, line_reader, section_reader, sections, result]: *)
(* the locals of parse, the two fields of self, and "running" or what      *)
(* parse returned.                                                         *)
(***************************************************************************)
\* let buf_size = 1024, scaled down (and even, as utf16_buf holds buf_size / 2)
buf_size == 8

\* lines 331-335 and 339-343: read_section on each line, to the first Err
RECURSIVE ReadLines(_, _, _)
ReadLines(reader, sections, lines) ==
    IF lines = <<>> THEN Returned("Ok", reader, sections)
    ELSE LET r == read_section(reader, sections, Head(lines))
         IN  IF r.result # "Ok" THEN r
             ELSE ReadLines(r.reader, r.sections, Tail(lines))

\* lines 331-335 and 339-343: the lines that were passed to read_section, the
\* one that returned Err being the last
RECURSIVE PassedLines(_, _, _)
PassedLines(reader, sections, lines) ==
    IF lines = <<>> THEN <<>>
    ELSE LET r == read_section(reader, sections, Head(lines))
         IN  IF r.result # "Ok" THEN <<Head(lines)>>
             ELSE <<Head(lines)>> \o PassedLines(r.reader, r.sections, Tail(lines))

\* lines 284-294: the state of parse when it enters its loop
ParseEntered(self) ==
    [bom_detected |-> FALSE, decoder |-> NewDecoder, line_reader |-> LineReaderDefault,
     section_reader |-> self.section_reader, sections |-> self.sections,
     result |-> "running"]

\* lines 309-329: the text decoded from the bytes read
Decoded(p, bytes) ==
    LET bom_detected == p.bom_detected \/ ForBom(bytes) # "none"
        d == DecodeToUtf16(p.decoder, bytes, buf_size \div 2, Len(bytes) # buf_size)
    IN  IF bom_detected
        THEN [bom_detected |-> TRUE, panic |-> d.panic, decoder |-> d.decoder,
              text |-> FromUtf16Lossy(d.written)]
        ELSE [bom_detected |-> FALSE, panic |-> FALSE, decoder |-> p.decoder,
              text |-> FromUtf8Lossy(bytes)]

\* lines 306-335: one turn of the loop, on a read that returned bytes
LoopTurnSkipping(p, bytes) ==
    LET d == Decoded(p, bytes)
        fed_ == ReadToLine(p.line_reader, d.text)
        drained == TakeLines(fed_.reader)
        r == ReadLines(p.section_reader, p.sections, drained.taken)
    IN  IF d.panic
        THEN [p EXCEPT !.bom_detected = TRUE, !.result = "panic"]
        ELSE IF fed_.err
        THEN [p EXCEPT !.bom_detected = d.bom_detected, !.decoder = d.decoder,
                       !.line_reader = fed_.reader, !.result = "ReadLineError"]
        ELSE [bom_detected |-> d.bom_detected, decoder |-> d.decoder,
              line_reader |-> drained.reader,
              section_reader |-> r.reader, sections |-> r.sections,
              result |-> "running"]

LoopTurnPassingOnError(p, bytes) ==
    LET d == Decoded(p, bytes)
        fed_ == ReadToLine(p.line_reader, d.text)
        drained == TakeLines(fed_.reader)
        r == ReadLines(p.section_reader, p.sections, drained.taken)
    IN  IF d.panic
        THEN [p EXCEPT !.bom_detected = TRUE, !.result = "panic"]
        ELSE [bom_detected |-> d.bom_detected, decoder |-> d.decoder,
              line_reader |-> drained.reader,
              section_reader |-> r.reader, sections |-> r.sections,
              result |-> IF r.result # "Ok" THEN "SectionParseError"
                         ELSE IF fed_.err THEN "ReadLineError" ELSE "running"]

LoopTurn(p, bytes) ==
    LET d == Decoded(p, bytes)
        fed_ == ReadToLine(p.line_reader, d.text)
        drained == TakeLines(fed_.reader)
        r == ReadLines(p.section_reader, p.sections, drained.taken)
    IN  IF d.panic
        THEN [p EXCEPT !.bom_detected = TRUE, !.result = "panic"]
        ELSE IF fed_.err
        THEN [p EXCEPT !.bom_detected = d.bom_detected, !.decoder = d.decoder,
                       !.line_reader = fed_.reader, !.result = "ReadLineError"]
        ELSE [bom_detected |-> d.bom_detected, decoder |-> d.decoder,
              line_reader |-> drained.reader,
              section_reader |-> r.reader, sections |-> r.sections,
              result |-> IF r.result = "Ok" THEN "running" ELSE "SectionParseError"]

\* lines 302-305 and 338-354: the read that returns 0 bytes
LoopExit(p) ==
    LET drained == TakeLines(Finalize(p.line_reader))
        r == ReadLines(p.section_reader, p.sections, drained.taken)
    IN  [p EXCEPT !.line_reader = drained.reader,
                  !.section_reader = r.reader, !.sections = r.sections,
                  !.result = IF r.result = "Ok" THEN "Ok" ELSE "SectionParseError"]

(***************************************************************************)
(* State.                                                                  *)
(***************************************************************************)
VARIABLES
    line_reader,    \* a LineReader: [remaining_string, lines]
    fed,            \* history: every chunk passed to read_to_line, concatenated
    emitted,        \* history: every line returned by take_lines, in order
    taken,          \* history: what the last take_lines returned
    lr_op,          \* history: the last LineReader call
    chunk,          \* history: the last chunk passed to read_to_line
    lr_status,      \* history: "feeding", "finalized" or "failed"
    lf_reader,      \* a second LineReader, fed the same chunks without their CRs
    lf_emitted,     \* history: every line the second reader's take_lines returned
    section_reader, \* a SectionReader
    sections,       \* the section map: section name -> InfSection
    sr_line,        \* history: the line of the last read_section call
    sr_result,      \* history: what the last read_section call returned
    sr_prev,        \* history: the reader and the sections before that call
    sr_calls,       \* history: the number of read_section calls
    file,           \* the bytes of the file being parsed
    pos,            \* how many of them have been read
    status,         \* "idle", or "running" inside the loop of parse
    bom_detected,   \* the local of parse
    decoder,        \* the local of parse
    result,         \* what the last parse call returned ("none" before)
    entered,        \* history: self when the last parse call began
    parses,         \* history: the number of parse calls
    read_counts,    \* history: what each read of the last parse call returned
    decoded,        \* history: the text of each chunk it gave to read_to_line
    passed,         \* history: the lines it passed to read_section, in order
    previous        \* history: the file and the result of the call before it

lrVars ==
    <<line_reader, fed, emitted, taken, lr_op, chunk, lr_status, lf_reader, lf_emitted>>

srVars == <<section_reader, sections, sr_line, sr_result, sr_prev, sr_calls>>

drVars ==
    <<file, pos, status, bom_detected, decoder, result, entered, parses,
      read_counts, decoded, passed, previous>>

vars == <<lrVars, srVars, drVars>>

LineReaderUnused ==
    /\ line_reader = LineReaderDefault
    /\ fed = <<>>
    /\ emitted = <<>>
    /\ taken = <<>>
    /\ lr_op = "new"
    /\ chunk = <<>>
    /\ lr_status = "feeding"
    /\ lf_reader = LineReaderDefault
    /\ lf_emitted = <<>>

SectionReaderUnused ==
    /\ section_reader = SectionReaderDefault
    /\ sections = NoSections
    /\ sr_line = <<>>
    /\ sr_result = "none"
    /\ sr_prev = [reader |-> SectionReaderDefault, sections |-> NoSections]
    /\ sr_calls = 0

DriverUnused ==
    /\ file = <<>>
    /\ pos = 0
    /\ status = "idle"
    /\ bom_detected = FALSE
    /\ decoder = NewDecoder
    /\ result = "none"
    /\ entered = [section_reader |-> SectionReaderDefault, sections |-> NoSections]
    /\ parses = 0
    /\ read_counts = <<>>
    /\ decoded = <<>>
    /\ passed = <<>>
    /\ previous = [file |-> <<>>, result |-> "none", parses |-> 0, full |-> TRUE]

\* WinInfFile::default(), a fresh LineReader and a fresh SectionReader
Init == LineReaderUnused /\ SectionReaderUnused /\ DriverUnused

(***************************************************************************)
(* The LineReader on its own, used as parse and the tests use it: chunks   *)
(* of any text are fed and the lines drained at any time, then finalize is *)
(* called once and the lines drained again.  A read_to_line that returned  *)
(* Err ends the use of the reader.                                         *)
(***************************************************************************)
LineReaderAlphabet == {CR, LF, 97, 98}

WithoutCr(text) == SelectSeq(text, LAMBDA c : c # CR)

Feed(line_part) ==
    /\ lr_status = "feeding"
    /\ LET r == ReadToLine(line_reader, line_part)
           t == ReadToLine(lf_reader, WithoutCr(line_part))
       IN  /\ line_reader' = r.reader
           /\ lf_reader' = t.reader
           /\ lr_status' = IF r.err THEN "failed" ELSE "feeding"
    /\ fed' = fed \o line_part
    /\ chunk' = line_part
    /\ lr_op' = "read_to_line"
    /\ UNCHANGED <<emitted, taken, lf_emitted, srVars, drVars>>

Take ==
    /\ lr_status \in {"feeding", "finalized"}
    /\ LET r == TakeLines(line_reader)
           t == TakeLines(lf_reader)
       IN  /\ line_reader' = r.reader
           /\ taken' = r.taken
           /\ emitted' = emitted \o r.taken
           /\ lf_reader' = t.reader
           /\ lf_emitted' = lf_emitted \o t.taken
    /\ lr_op' = "take_lines"
    /\ UNCHANGED <<fed, chunk, lr_status, srVars, drVars>>

CallFinalize ==
    /\ lr_status = "feeding"
    /\ line_reader' = Finalize(line_reader)
    /\ lf_reader' = Finalize(lf_reader)
    /\ lr_status' = "finalized"
    /\ lr_op' = "finalize"
    /\ UNCHANGED <<fed, chunk, emitted, taken, lf_emitted, srVars, drVars>>

NextLineReader ==
    \/ \E line_part \in StringsUpTo(LineReaderAlphabet, MaxFed - Len(fed)) :
           Feed(line_part)
    \/ Take
    \/ CallFinalize

SpecLineReader == Init /\ [][NextLineReader]_vars


(***************************************************************************)
(* The SectionReader on its own: a fresh reader and an empty section map,  *)
(* given any lines of SectionLines, one read_section call after another.   *)
(***************************************************************************)
SectionLines ==
    { S(<<"[", "A", "]">>),
      S(<<"[", "B", "]">>),
      S(<<"[", "]">>),
      S(<<"[", "A", " ", "B", "]">>),
      S(<<";", "k", "=", "v">>),
      S(<<"k", "=", "v">>),
      S(<<" ", "b", " ", "=", " ", "a", " ", ";", "k">>),
      S(<<"k", "=", "a", ";", "b", "\\">>),
      S(<<"k", "=", "v", "\\">>),
      S(<<"k", "=", "a", "\\", "b", "\\", "\\">>),
      S(<<"k", "=", "\\">>),
      S(<<"k", "=", "\"", "v", "\"">>),
      S(<<"k", "=", " ", "\"", "v", "\"", ";", "a">>),
      S(<<"k", "=", "\"", "v", "\"", " ", ";", "a">>),
      S(<<"k", "=", "\"", "v", "\"", "\\">>),
      S(<<"k", "=", "\"", "v", "\"", "\\", "a">>),
      S(<<"k", "=", "\"", "v", "\"", "a">>),
      S(<<"k", "=", "\"", "v">>),
      S(<<"k", "=", "\"", "v", "\\", "\"", "\\">>),
      <<107, 61, 34, 233, 34, 92>>,
      <<107, 61, 34, 233, 34, 59, 97>>,
      <<107, 61, 34, 233, 34, 97>>,
      S(<<"k", "=", "\"", "\"", "\\">>),
      S(<<"k", "=">>),
      S(<<"w">>),
      S(<<"\t", "w", "\\", " ">>),
      S(<<" ">>) }

ReadSectionCall(untrimmed) ==
    /\ sr_calls < MaxCalls
    /\ LET r == read_section(section_reader, sections, untrimmed)
       IN  /\ section_reader' = r.reader
           /\ sections' = r.sections
           /\ sr_result' = r.result
    /\ sr_line' = untrimmed
    /\ sr_prev' = [reader |-> section_reader, sections |-> sections]
    /\ sr_calls' = sr_calls + 1
    /\ UNCHANGED <<lrVars, drVars>>

NextSection == \E untrimmed \in SectionLines : ReadSectionCall(untrimmed)

SpecSection == Init /\ [][NextSection]_vars

(***************************************************************************)
(* The section-name validation on its own: a fresh SectionReader reads one *)
(* header line [name], for any name of up to MaxNameLen characters.        *)
(***************************************************************************)
HeaderAlphabet ==
    {CR, LF, TAB, SPACE, QUOTE, PERCENT, SEMICOLON, LBRACKET, BACKSLASH, RBRACKET, 65}

ReadHeaderCall(name) ==
    /\ sr_calls = 0
    /\ ReadSectionCall(<<LBRACKET>> \o name \o <<RBRACKET>>)

NextHeader == \E name \in StringsUpTo(HeaderAlphabet, MaxNameLen) : ReadHeaderCall(name)

SpecHeader == Init /\ [][NextHeader]_vars

(***************************************************************************)
(* parse, called up to MaxParses times on one WinInfFile.  Each read       *)
(* returns between 1 and buf_size of the bytes left, or 0 at the end of    *)
(* the file, or fails.                                                     *)
(***************************************************************************)
BOM == <<255, 254>>

\* in read_counts, a read that returned Err
ReadErr == -1

\* text as UTF-16LE bytes
Utf16Le(text) == [i \in 1..(2 * Len(text)) |-> IF i % 2 = 1 THEN text[(i + 1) \div 2] ELSE 0]

Files ==
    { <<>>,
      <<SPACE>>,
      S(<<"[", "A", "]", "\n", "k", "=", "v", "\n">>),
      S(<<"[", "A", "]", "\r", "\n", "w">>),
      S(<<"[", "A", "]", "\r", "w">>),
      S(<<"[", "A", "]", "\n", "\r", "w">>),
      S(<<"[", "A", "]", "\n", "k", "=", "v", "\\">>),
      S(<<"w", "\n", "[", "B", "]", "\n", "w">>),
      S(<<"[", "[", "]", "\n", "\r", "w">>),
      S(<<"[", "A", "]", "\n", "w", "\n", "k", "=", "v", "\\">>),
      S(<<"w", "\n">>) \o BOM \o Utf16Le(S(<<"w">>)),
      <<239, 187, 191>> \o S(<<"[", "A", "]", "\n", "w">>),
      BOM \o Utf16Le(S(<<"[", "A", "]", "\n", "w">>)) }

Min(a, b) == IF a <= b THEN a ELSE b

Self == [section_reader |-> section_reader, sections |-> sections]

Parsing ==
    [bom_detected |-> bom_detected, decoder |-> decoder, line_reader |-> line_reader,
     section_reader |-> section_reader, sections |-> sections, result |-> "running"]

\* the parse goes on as p, or has returned p.result
Continue(p) ==
    /\ bom_detected' = p.bom_detected
    /\ decoder' = p.decoder
    /\ line_reader' = p.line_reader
    /\ section_reader' = p.section_reader
    /\ sections' = p.sections
    /\ status' = IF p.result = "running" THEN "running" ELSE "idle"
    /\ result' = p.result

LineReaderHistoryUnchanged ==
    UNCHANGED <<fed, emitted, taken, lr_op, chunk, lr_status, lf_reader, lf_emitted>>

SectionReaderHistoryUnchanged == UNCHANGED <<sr_line, sr_result, sr_prev, sr_calls>>

\* the bytes returned by the first n reads of the call
RECURSIVE BytesRead(_)
BytesRead(n) ==
    IF n = 0 THEN 0
    ELSE BytesRead(n - 1) + (IF read_counts[n] = ReadErr THEN 0 ELSE read_counts[n])

\* every read of the call filled the buffer while the file had that many bytes
\* left, as reads of a regular file do
ReadInFull ==
    \A i \in 1..Len(read_counts) :
        read_counts[i] = Min(buf_size, Len(file) - BytesRead(i - 1))

\* a parse call begins: nothing read, decoded or passed yet
ParseCalled(bytes) ==
    /\ parses' = parses + 1
    /\ entered' = Self
    /\ previous' = [file |-> file, result |-> result, parses |-> parses,
                     full |-> ReadInFull]
    /\ file' = bytes
    /\ pos' = 0
    /\ read_counts' = <<>>
    /\ decoded' = <<>>
    /\ passed' = <<>>

\* lines 284-286: the path does not exist
ParseMissingFileClearing ==
    /\ status = "idle" /\ parses < MaxParses
    /\ result' = "FileDoNotExist"
    /\ ParseCalled(<<>>)
    /\ section_reader' = SectionReaderDefault
    /\ sections' = NoSections
    /\ UNCHANGED <<status, bom_detected, decoder, line_reader>>
    /\ LineReaderHistoryUnchanged /\ SectionReaderHistoryUnchanged

ParseMissingFile ==
    /\ status = "idle" /\ parses < MaxParses
    /\ result' = "FileDoNotExist"
    /\ ParseCalled(<<>>)
    /\ UNCHANGED <<status, bom_detected, decoder>>
    /\ UNCHANGED <<line_reader, section_reader, sections>>
    /\ LineReaderHistoryUnchanged /\ SectionReaderHistoryUnchanged

\* line 288: File::open fails
ParseOpenFails ==
    /\ status = "idle" /\ parses < MaxParses
    /\ result' = "FileOpenError"
    /\ ParseCalled(<<>>)
    /\ UNCHANGED <<status, bom_detected, decoder>>
    /\ UNCHANGED <<line_reader, section_reader, sections>>
    /\ LineReaderHistoryUnchanged /\ SectionReaderHistoryUnchanged

\* lines 288-294: the file is open and the loop is entered
ParseEnter(bytes) ==
    /\ status = "idle" /\ parses < MaxParses
    /\ ParseCalled(bytes)
    /\ Continue(ParseEntered(Self))
    /\ LineReaderHistoryUnchanged /\ SectionReaderHistoryUnchanged

\* lines 296-335: a read of n bytes and the turn of the loop on them
Read(n) ==
    /\ status = "running"
    /\ pos + n <= Len(file)
    /\ Continue(LoopTurn(Parsing, SubSeq(file, pos + 1, pos + n)))
    /\ pos' = pos + n
    /\ read_counts' = Append(read_counts, n)
    /\ LET d == Decoded(Parsing, SubSeq(file, pos + 1, pos + n))
           fed_ == ReadToLine(line_reader, d.text)
       IN  /\ decoded' = IF d.panic THEN decoded ELSE Append(decoded, d.text)
           /\ passed' = IF d.panic \/ fed_.err THEN passed
                         ELSE passed \o PassedLines(section_reader, sections,
                                                    TakeLines(fed_.reader).taken)
    /\ UNCHANGED <<file, entered, parses, previous>>
    /\ LineReaderHistoryUnchanged /\ SectionReaderHistoryUnchanged

\* lines 302-305, 338-354: the read at the end of the file returns 0
ReadEnd ==
    /\ status = "running"
    /\ pos = Len(file)
    /\ Continue(LoopExit(Parsing))
    /\ read_counts' = Append(read_counts, 0)
    /\ passed' = passed \o PassedLines(section_reader, sections,
                                        TakeLines(Finalize(line_reader)).taken)
    /\ UNCHANGED <<file, pos, entered, parses, decoded, previous>>
    /\ LineReaderHistoryUnchanged /\ SectionReaderHistoryUnchanged

\* lines 298-300: the read fails
ReadFails ==
    /\ status = "running"
    /\ status' = "idle"
    /\ result' = "FileReadError"
    /\ read_counts' = Append(read_counts, ReadErr)
    /\ UNCHANGED <<file, pos, entered, parses, bom_detected, decoder>>
    /\ UNCHANGED <<decoded, passed, previous>>
    /\ UNCHANGED <<line_reader, section_reader, sections>>
    /\ LineReaderHistoryUnchanged /\ SectionReaderHistoryUnchanged

Next ==
    \/ ParseMissingFile
    \/ ParseOpenFails
    \/ \E bytes \in Files : ParseEnter(bytes)
    \/ \E n \in 1..buf_size : Read(n)
    \/ ReadEnd
    \/ ReadFails

Spec == Init /\ [][Next]_vars

(***************************************************************************)
(* Properties of the LineReader.                                           *)
(***************************************************************************)
\* text without its line-terminator characters
Stripped(text) == SelectSeq(text, LAMBDA c : c # CR /\ c # LF)

\* the index of the last LF of text, 0 when it has none
LastLf(text) ==
    LET at == {i \in 1..Len(text) : text[i] = LF}
    IN  IF at = {} THEN 0 ELSE CHOOSE i \in at : \A j \in at : j <= i

\* the text after the last terminator
Unterminated(text) == WithoutCr(SubSeq(text, LastLf(text) + 1, Len(text)))

\* the non-empty lines of text that a terminator has ended, in order
RECURSIVE TerminatedLines(_)
TerminatedLines(text) ==
    IF LastLf(text) = 0 THEN <<>>
    ELSE LET first == CHOOSE i \in 1..Len(text) :
                          text[i] = LF /\ \A j \in 1..(i - 1) : text[j] # LF
             line == WithoutCr(SubSeq(text, 1, first - 1))
             rest == TerminatedLines(SubSeq(text, first + 1, Len(text)))
         IN  IF line = <<>> THEN rest ELSE <<line>> \o rest

\* every CR of text is followed by LF (or is its last character) and every LF
\* follows a CR: text is a prefix of lines each ended by CRLF
CrLfTerminated(text) ==
    \A i \in 1..Len(text) :
        /\ text[i] = CR /\ i < Len(text) => text[i + 1] = LF
        /\ text[i] = LF => i > 1 /\ text[i - 1] = CR

\* C2: every CR that is not immediately followed by LF makes read_to_line fail:
\* a CR followed by another character, in the same chunk or in the next one,
\* and a CR that is the last character of the stream when finalize is called.
C2_BareCrFails ==
    \A i \in 1..Len(fed) :
        /\ fed[i] = CR
        /\ \/ i < Len(fed) /\ fed[i + 1] # LF
           \/ i = Len(fed) /\ lr_status = "finalized"
        => lr_status = "failed"

\* C3: after successful feeds, one finalize and the take_lines that follows it,
\* the lines returned by all take_lines calls, concatenated, are the fed text
\* without its CR and LF characters.
C3_NoCharacterLost ==
    lr_status = "finalized" /\ lr_op = "take_lines"
        => Concat(emitted) = Stripped(fed)

C3_Witness ==
    /\ lr_status = "finalized" /\ lr_op = "take_lines"
    /\ fed = S(<<"a", "\r", "\n", "b", "\n", "a">>)
    /\ chunk = S(<<"\n", "b", "\n", "a">>)
    /\ emitted = <<S(<<"a">>), S(<<"b">>), S(<<"a">>)>>

\* C4: while the text fed is made of lines each ended by CRLF, the reader holds
\* and has returned the same lines as a reader fed the same contents with each
\* line ended by a bare LF.
C4_TerminatorEquivalence ==
    CrLfTerminated(fed) /\ lr_status \in {"feeding", "finalized"}
        => /\ line_reader = lf_reader
           /\ emitted = lf_emitted

C4_Witness ==
    /\ fed = S(<<"a", "\r", "\n", "b", "\r", "\n">>)
    /\ lr_status = "feeding" /\ lr_op = "take_lines"
    /\ emitted = <<S(<<"a">>), S(<<"b">>)>>
    /\ lf_emitted = emitted

\* C5: before finalize the text after the last terminator is remaining_string
\* and the lines held or returned are exactly the terminated ones; finalize
\* adds a non-empty remaining_string as one last line.
C5_UnterminatedTextBuffered ==
    /\ lr_status = "feeding"
        => /\ line_reader.remaining_string = Unterminated(fed)
           /\ emitted \o line_reader.lines = TerminatedLines(fed)
    /\ lr_status = "finalized"
        => emitted \o line_reader.lines =
               TerminatedLines(fed) \o
                   (IF Unterminated(fed) # <<>> THEN <<Unterminated(fed)>> ELSE <<>>)

C5_Witness ==
    /\ lr_status = "finalized" /\ lr_op = "take_lines"
    /\ fed = S(<<"a", "b", "\n", "a">>)
    /\ chunk = S(<<"b", "\n", "a">>)
    /\ emitted = <<S(<<"a", "b">>), S(<<"a">>)>>
    /\ taken = <<S(<<"a">>)>>


(***************************************************************************)
(* Properties of the SectionReader, stated of the last read_section call:  *)
(* its line sr_line, the state sr_prev before it and the state after it.   *)
(***************************************************************************)
Called == sr_calls > 0

TrimmedLine == Trim(sr_line)

CommentLine == TrimmedLine # <<>> /\ TrimmedLine[1] = SEMICOLON

HeaderLine ==
    /\ Len(TrimmedLine) >= 2
    /\ TrimmedLine[1] = LBRACKET
    /\ TrimmedLine[Len(TrimmedLine)] = RBRACKET

HeaderName == SubSeq(TrimmedLine, 2, Len(TrimmedLine) - 1)

HeaderAccepted == Called /\ HeaderLine /\ sr_result = "Ok"

\* the section that was current when the call was made
CurrentName == sr_prev.reader.last_section_name

WasInSection == CurrentName # <<>>

\* an entry line: neither a comment nor a header
EntryLine == ~CommentLine /\ ~HeaderLine

\* the key and the value of an entry line with =, split on the first =
EqualsAt == CHOOSE i \in 1..Len(TrimmedLine) :
                TrimmedLine[i] = EQUALS /\ \A j \in 1..(i - 1) : TrimmedLine[j] # EQUALS

LineKey == Trim(SubSeq(TrimmedLine, 1, EqualsAt - 1))

LineValue == Trim(SubSeq(TrimmedLine, EqualsAt + 1, Len(TrimmedLine)))

\* the value cut at its first ; and trimmed again
TruncatedValue ==
    LET semicolons == {i \in 1..Len(LineValue) : LineValue[i] = SEMICOLON}
    IN  IF semicolons = {} THEN LineValue
        ELSE Trim(SubSeq(LineValue, 1,
                         (CHOOSE i \in semicolons : \A j \in semicolons : i <= j) - 1))

\* the call left every section but the current one as it was
OtherSectionsUnchanged ==
    /\ DOMAIN sections = DOMAIN sr_prev.sections
    /\ \A n \in DOMAIN sections : n # CurrentName => sections[n] = sr_prev.sections[n]

\* the call appended exactly entry to the current section
Committed(entry) ==
    /\ CurrentName \in DOMAIN sr_prev.sections
    /\ OtherSectionsUnchanged
    /\ sections[CurrentName] =
           InfSection(CurrentName, Append(sr_prev.sections[CurrentName].entries, entry))

ContinuationCleared ==
    /\ section_reader.last_entry_value_contd = <<>>
    /\ section_reader.last_entry_key = <<>>

\* C6: a header line with a valid name is accepted, maps the name to a section
\* with no entries (whatever the name mapped to before), makes it the current
\* section and leaves every other section as it was.
C6_HeaderOverwrites ==
    Called /\ HeaderLine /\ validate_section_name(HeaderName) = "Ok"
        => /\ sr_result = "Ok"
           /\ DOMAIN sections = DOMAIN sr_prev.sections \cup {HeaderName}
           /\ sections[HeaderName] = InfSection(HeaderName, <<>>)
           /\ \A n \in DOMAIN sr_prev.sections :
                  n # HeaderName => sections[n] = sr_prev.sections[n]
           /\ section_reader.last_section_name = HeaderName

C6_Witness ==
    /\ HeaderAccepted
    /\ HeaderName = S(<<"A">>)
    /\ HeaderName \in DOMAIN sr_prev.sections
    /\ sr_prev.sections[HeaderName].entries # <<>>
    /\ S(<<"B">>) \in DOMAIN sections
    /\ sections[HeaderName].entries = <<>>

\* C7: after an accepted header no continuation is pending.
C7_HeaderClearsContinuation ==
    HeaderAccepted => section_reader.last_entry_value_contd = <<>>

\* C8: while no section is current, a line that is neither a comment nor a
\* header returns Ok and changes neither the sections nor the reader; before
\* the first accepted header the reader is still as constructed.
C8_IdleIgnoresEntries ==
    /\ Called /\ ~WasInSection /\ EntryLine
        => /\ sr_result = "Ok"
           /\ sections = sr_prev.sections
           /\ section_reader = sr_prev.reader
    /\ Called /\ sr_prev.sections = NoSections /\ EntryLine
        => /\ sections = NoSections
           /\ section_reader = SectionReaderDefault

C8_Witness ==
    /\ Called /\ sr_prev.sections = NoSections
    /\ sr_line = S(<<"k", "=", "v", "\\">>)
    /\ sr_result = "Ok"

\* C9: a call that is not an accepted header leaves every section but the
\* current one as it was and the current one with the entries it had, in the
\* same order, followed by at most one new entry.
C9_EntriesInCommitOrder ==
    Called /\ ~HeaderAccepted
        => /\ OtherSectionsUnchanged
           /\ CurrentName \in DOMAIN sections
                  => LET before == sr_prev.sections[CurrentName].entries
                         after == sections[CurrentName].entries
                     IN  /\ sections[CurrentName].name = CurrentName
                         /\ Len(after) \in {Len(before), Len(before) + 1}
                         /\ SubSeq(after, 1, Len(before)) = before

C9_Witness ==
    /\ Called /\ sr_line = S(<<"k", "=", "v">>)
    /\ CurrentName = S(<<"A">>)
    /\ S(<<"B">>) \in DOMAIN sections
    /\ sections[CurrentName].entries =
           <<KeyValue(S(<<"k">>), Some(Raw(S(<<"v">>)))),
             KeyValue(S(<<"k">>), Some(Raw(S(<<"v">>))))>>

\* the last call read, under a section, an entry line with = whose value does
\* not start with " and, cut at its first ; and trimmed, does not end with \
UnquotedPlainValueLine ==
    /\ Called /\ WasInSection /\ EntryLine
    /\ \E i \in 1..Len(TrimmedLine) : TrimmedLine[i] = EQUALS
    /\ ~(LineValue # <<>> /\ LineValue[1] = QUOTE)
    /\ ~(TruncatedValue # <<>> /\ TruncatedValue[Len(TruncatedValue)] = BACKSLASH)

\* C10: under a section, an entry line with = whose value does not start with "
\* and, cut at its first ; and trimmed, does not end with \ appends
\* KeyValue(key, Raw(cut value)) to the current section and clears the
\* continuation.
C10_UnquotedValueCommitted ==
    UnquotedPlainValueLine
        => /\ sr_result = "Ok"
           /\ Committed(KeyValue(LineKey, Some(Raw(TruncatedValue))))
           /\ ContinuationCleared

C10_Witness ==
    /\ Called /\ WasInSection
    /\ sr_line = S(<<" ", "b", " ", "=", " ", "a", " ", ";", "k">>)
    /\ sr_prev.reader.last_entry_value_contd # <<>>
    /\ sections[CurrentName].entries = <<KeyValue(S(<<"b">>), Some(Raw(S(<<"a">>))))>>
    /\ ContinuationCleared

\* the last call read, under a section, an entry line with =
HasEquals == \E i \in 1..Len(TrimmedLine) : TrimmedLine[i] = EQUALS

KeyValueLine == Called /\ WasInSection /\ EntryLine /\ HasEquals

\* ... whose value starts with "
QuotedValueLine == KeyValueLine /\ LineValue # <<>> /\ LineValue[1] = QUOTE

\* the positions of the quotes after the opening one, and the first of them
ClosingQuotes == {i \in 2..Len(LineValue) : LineValue[i] = QUOTE}

ClosingQuoteAt == CHOOSE i \in ClosingQuotes : \A j \in ClosingQuotes : i <= j

\* the text strictly between the quotes, and the text after the closing quote
Candidate == SubSeq(LineValue, 2, ClosingQuoteAt - 1)

AfterClosingQuote == SubSeq(LineValue, ClosingQuoteAt + 1, Len(LineValue))

\* a comment, directly or after whitespace
OnlyComment(text) ==
    \E i \in 1..Len(text) :
        /\ text[i] = SEMICOLON
        /\ \A j \in 1..(i - 1) : IsWhitespace(text[j])

NothingCommitted == sections = sr_prev.sections

ReaderUnchanged == section_reader = sr_prev.reader

\* C11: under a section, key = "candidate" followed by nothing or by only a
\* comment (the ; directly after the quote or after whitespace) appends
\* KeyValue(key, Raw(candidate)) to the current section and leaves no
\* continuation pending.
C11_QuotedValueCommitted ==
    /\ QuotedValueLine /\ ClosingQuotes # {}
    /\ AfterClosingQuote = <<>> \/ OnlyComment(AfterClosingQuote)
    => /\ sr_result = "Ok"
       /\ Committed(KeyValue(LineKey, Some(Raw(Candidate))))
       /\ section_reader.last_entry_value_contd = <<>>

ExaminedAt == ByteLen(SubSeq(LineValue, 1, ClosingQuoteAt - 1)) + 2

BackslashExamined ==
    /\ QuotedValueLine /\ ClosingQuotes # {}
    /\ ExaminedAt <= Len(LineValue)
    /\ LineValue[ExaminedAt] = BACKSLASH

UnquotedContinuedLine ==
    /\ KeyValueLine
    /\ ~(LineValue # <<>> /\ LineValue[1] = QUOTE)
    /\ TruncatedValue # <<>> /\ TruncatedValue[Len(TruncatedValue)] = BACKSLASH

\* where the run of backslashes that ends the cut value starts
TrailingRunAt ==
    LET runs == {i \in 1..Len(TruncatedValue) :
                    \A j \in i..Len(TruncatedValue) : TruncatedValue[j] = BACKSLASH}
    IN  CHOOSE i \in runs : \A j \in runs : i <= j

BeforeTrailingRun == SubSeq(TruncatedValue, 1, TrailingRunAt - 1)

\* C13: under a section, an unquoted value that, cut at its first ;, ends with
\* a backslash commits nothing; what comes before its trailing run of
\* backslashes is kept with the key as the pending continuation, or, when that
\* is empty, no continuation is pending.
C13_TrailingRunCut ==
    UnquotedContinuedLine
        => /\ sr_result = "Ok"
           /\ NothingCommitted
           /\ IF BeforeTrailingRun # <<>>
              THEN /\ section_reader.last_entry_key = LineKey
                   /\ section_reader.last_entry_value_contd = BeforeTrailingRun
              ELSE section_reader.last_entry_value_contd = <<>>

\* the last call read, under a section, an entry line without =
BareLine == Called /\ WasInSection /\ EntryLine /\ ~HasEquals

WasPending == sr_prev.reader.last_entry_value_contd # <<>>

\* C14: under a section with a continuation (key, partial) pending, a line
\* without = appends KeyValue(key, Raw(partial followed by the trimmed line))
\* and nothing else to the current section and clears the continuation.
C14_ContinuationResolved ==
    BareLine /\ WasPending
        => /\ sr_result = "Ok"
           /\ Committed(KeyValue(sr_prev.reader.last_entry_key,
                                 Some(Raw(sr_prev.reader.last_entry_value_contd
                                              \o TrimmedLine))))
           /\ ContinuationCleared

C14_Witness ==
    /\ BareLine /\ WasPending
    /\ sr_line = S(<<"\t", "w", "\\", " ">>)
    /\ sr_prev.sections[CurrentName].entries = <<>>
    /\ sections[CurrentName].entries =
           <<KeyValue(S(<<"k">>), Some(Raw(S(<<"v", "w", "\\">>))))>>

\* C15: under a section with no continuation pending, a line without =
\* appends OnlyValue(Raw(trimmed line)) to the current section; and no line
\* without = leaves a continuation pending, so the line after the one that
\* resolved a continuation is read with none pending.
C15_BareLineCommitted ==
    /\ BareLine /\ ~WasPending
        => /\ sr_result = "Ok"
           /\ Committed(OnlyValue(Raw(TrimmedLine)))
           /\ ReaderUnchanged
    /\ BareLine => section_reader.last_entry_value_contd = <<>>

C15_Witness ==
    /\ BareLine /\ ~WasPending
    /\ sr_line = S(<<"w">>)
    /\ sections[CurrentName].entries =
           <<KeyValue(S(<<"k">>), Some(Raw(S(<<"v", "w", "\\">>)))),
             OnlyValue(Raw(S(<<"w">>)))>>

\* C16: a comment line returns Ok and leaves the sections, the current
\* section and the continuation as they were.
C16_CommentChangesNothing ==
    Called /\ CommentLine
        => /\ sr_result = "Ok"
           /\ NothingCommitted
           /\ ReaderUnchanged

C16_Witness ==
    /\ Called /\ CommentLine /\ WasInSection /\ WasPending
    /\ sr_line = S(<<";", "k", "=", "v">>)
    /\ section_reader.last_entry_value_contd = S(<<"v">>)
    /\ section_reader.last_entry_key = S(<<"k">>)

\* the validation rules for the text between [ and ]
NameQuoted == HeaderName # <<>> /\ HeaderName[1] = QUOTE

NameValid ==
    IF NameQuoted
    THEN /\ HeaderName[Len(HeaderName)] = QUOTE
         /\ \A i \in 1..Len(HeaderName) : HeaderName[i] # RBRACKET
    ELSE /\ HeaderName = <<>> \/ HeaderName[Len(HeaderName)] # BACKSLASH
         /\ Cardinality({i \in 1..Len(HeaderName) : HeaderName[i] = PERCENT}) % 2 = 0
         /\ \A i \in 1..Len(HeaderName) :
                HeaderName[i] \notin {13, 10, 34, 32, 9, 91, 93, 59}

\* C17: a header line is accepted exactly when the text between [ and ]
\* satisfies the validation rules; otherwise read_section fails with
\* InvalidSectionName and changes nothing.
C17_HeaderAcceptedIffValid ==
    Called /\ HeaderLine
        => IF NameValid
           THEN /\ sr_result = "Ok"
                /\ section_reader.last_section_name = HeaderName
                /\ HeaderName \in DOMAIN sections
           ELSE /\ sr_result = "InvalidSectionName"
                /\ NothingCommitted
                /\ ReaderUnchanged

C17_Witness ==
    /\ Called /\ HeaderLine
    /\ HeaderName = S(<<"\"", "]", "\"">>)
    /\ sr_result = "InvalidSectionName"

\* C18: under a section, key = "... with no second quote fails with
\* InvalidQuotedValue and changes neither the sections nor the reader.
C18_UnclosedQuoteFails ==
    QuotedValueLine /\ ClosingQuotes = {}
        => /\ sr_result = "InvalidQuotedValue"
           /\ NothingCommitted
           /\ ReaderUnchanged

C18_Witness ==
    /\ QuotedValueLine /\ ClosingQuotes = {}
    /\ sr_line = S(<<"k", "=", "\"", "v">>)
    /\ sr_result = "InvalidQuotedValue"
    /\ sr_prev.sections[CurrentName].entries # <<>>

\* C19: under a section, key = "candidate" followed by anything but nothing,
\* a comment or exactly one backslash fails with InvalidContinuation.
C19_InvalidContinuationFails ==
    /\ QuotedValueLine /\ ClosingQuotes # {}
    /\ AfterClosingQuote # <<>>
    /\ ~OnlyComment(AfterClosingQuote)
    /\ AfterClosingQuote # <<BACKSLASH>>
    => sr_result = "InvalidContinuation"

RECURSIVE ParseFrom(_, _, _)
ParseFrom(p, bytes, at) ==
    IF p.result # "running" THEN p
    ELSE IF at = Len(bytes) THEN LoopExit(p)
    ELSE LET n == Min(buf_size, Len(bytes) - at)
         IN  ParseFrom(LoopTurn(p, SubSeq(bytes, at + 1, at + n)), bytes, at + n)

ParseInFullReads(self, bytes) == ParseFrom(ParseEntered(self), bytes, 0)

\* the last parse call read its file to a result of its own making
Parsed == status = "idle" /\ result \in {"Ok", "ReadLineError", "SectionParseError", "panic"}

\* C1: however the reads divide the file into chunks, parse returns what it
\* returns when every read fills the buffer (one chunk for a file of at most
\* buf_size bytes), and leaves the same sections.
C1_ChunkIndependence ==
    Parsed => /\ result = ParseInFullReads(entered, file).result
              /\ sections = ParseInFullReads(entered, file).sections

(***************************************************************************)
(* Properties of parse, stated of the last parse call: the WinInfFile it   *)
(* was called on (entered), what its reads returned (read_counts), the     *)
(* text of the chunks it gave to the LineReader (decoded) and the lines it *)
(* passed to the SectionReader (passed).                                   *)
(***************************************************************************)
ParseReturned == status = "idle" /\ parses > 0

ErrorResults ==
    {"FileDoNotExist", "FileOpenError", "FileReadError", "ReadLineError", "SectionParseError"}

\* text holds a CR followed by a character other than LF
HasBareCr(text) == \E i \in 1..(Len(text) - 1) : text[i] = CR /\ text[i + 1] # LF

\* read_section on each of lines in turn, whatever it returns: the reader and
\* the sections left, and what each call returned
RECURSIVE Replayed(_, _, _)
Replayed(reader, sects, lines) ==
    IF lines = <<>> THEN [reader |-> reader, sections |-> sects, results |-> <<>>]
    ELSE LET r == read_section(reader, sects, Head(lines))
             rest == Replayed(r.reader, r.sections, Tail(lines))
         IN  [rest EXCEPT !.results = <<r.result>> \o @]

ReplayedPassed == Replayed(entered.section_reader, entered.sections, passed)

\* C21: parse returns at the first failure, wrapped by its stage: a read that
\* fails, a chunk the LineReader rejects or a line the SectionReader rejects is
\* the last one of the call, which then has returned FileReadError,
\* ReadLineError or SectionParseError; the reader and the sections are what
\* the lines passed made of them.
C21_StopsAtFirstFailure ==
    /\ \A i \in 1..Len(read_counts) :
           read_counts[i] = ReadErr
               => i = Len(read_counts) /\ status = "idle" /\ result = "FileReadError"
    /\ \A i \in 1..Len(decoded) :
           HasBareCr(decoded[i])
               => i = Len(decoded) /\ status = "idle" /\ result = "ReadLineError"
    /\ \A i \in 1..Len(passed) :
           ReplayedPassed.results[i] # "Ok"
               => i = Len(passed) /\ status = "idle" /\ result = "SectionParseError"
    /\ result = "FileReadError"
           => read_counts # <<>> /\ read_counts[Len(read_counts)] = ReadErr
    /\ result = "ReadLineError"
           => decoded # <<>> /\ HasBareCr(decoded[Len(decoded)])
    /\ result = "SectionParseError"
           => passed # <<>> /\ ReplayedPassed.results[Len(passed)] # "Ok"
    /\ parses > 0
           => /\ section_reader = ReplayedPassed.reader
              /\ sections = ReplayedPassed.sections

C21_Witness ==
    /\ ParseReturned /\ result = "SectionParseError"
    /\ file = S(<<"[", "[", "]", "\n", "\r", "w">>)
    /\ read_counts = <<4>>
    /\ passed = <<S(<<"[", "[", "]">>)>>

\* C22: after a parse call that returned an error the sections are those the
\* WinInfFile had before the call.
C22_FailedParseLeavesDocument ==
    ParseReturned /\ result \in ErrorResults => sections = entered.sections

\* C23: a parse call on a path that does not exist returns FileDoNotExist with
\* no read made, no chunk decoded and no line passed, and leaves the sections
\* and the SectionReader as they were.
C23_MissingFileChangesNothing ==
    result = "FileDoNotExist"
        => /\ status = "idle"
           /\ read_counts = <<>> /\ decoded = <<>> /\ passed = <<>>
           /\ sections = entered.sections
           /\ section_reader = entered.section_reader

C23_Witness ==
    /\ result = "FileDoNotExist" /\ parses = 2
    /\ previous.result = "Ok"
    /\ sections # NoSections
    /\ section_reader.last_entry_value_contd # <<>>

\* the bytes of the i-th chunk read
ChunkBytes(i) == SubSeq(file, BytesRead(i - 1) + 1, BytesRead(i))

\* the code points of UTF-16LE bytes, two bytes each
Utf16LeText(bytes) ==
    [i \in 1..(Len(bytes) \div 2) |-> bytes[2 * i - 1] + 256 * bytes[2 * i]]

FirstChunkHasBom ==
    read_counts # <<>> /\ read_counts[1] >= 2 /\ SubSeq(file, 1, 2) = <<255, 254>>

\* text without the characters U+FEFF (a decoded byte-order mark) and U+FFFD
\* (what a decoder puts for bytes it cannot decode)
Legible(text) == SelectSeq(text, LAMBDA c : c # 65279 /\ c # 65533)

\* C24: when the first chunk begins with the UTF-16LE byte-order mark, the text
\* decoded is that of the bytes read after it, as UTF-16LE; otherwise every
\* chunk is decoded as UTF-8 (a byte-order mark kept or dropped).
C24_EncodingChosenOnce ==
    IF FirstChunkHasBom
    THEN Legible(Concat(decoded))
             = Utf16LeText(SubSeq(file, 3, BytesRead(Len(decoded))))
    ELSE \A i \in 1..Len(decoded) :
             Legible(decoded[i]) = Legible(FromUtf8Lossy(ChunkBytes(i)))

\* C25: every parse call begins with a SectionReader as constructed and with
\* no sections.
C25_ParseStartsFresh ==
    parses > 0
        => /\ entered.section_reader = SectionReaderDefault
           /\ entered.sections = NoSections

\* C26: a second parse call on the same WinInfFile and the same file, both
\* calls reading the file in full buffers and the first one on a fresh
\* WinInfFile returning Ok, returns Ok and leaves the sections the first left.
C26_ReparseIdempotent ==
    /\ ParseReturned /\ previous.parses = 1 /\ previous.result = "Ok" /\ previous.full
    /\ previous.file = file /\ ReadInFull
    /\ result \in {"Ok", "ReadLineError", "SectionParseError"}
    => /\ result = "Ok"
       /\ sections = entered.sections

\* the text fed so far has every CR directly before an LF, or as its last
\* character
EveryCrBeforeLf == \A i \in 1..(Len(fed) - 1) : fed[i] = CR => fed[i + 1] = LF

FedInOneChunk == ReadToLine(LineReaderDefault, fed)

\* C27: when every CR fed is directly followed by LF, in the same chunk or as
\* the first character of the next, no call fails and the lines returned and
\* held, and the text buffered, are those of a reader fed the whole text as
\* one chunk.
C27_SplitCrLfTerminatesOneLine ==
    EveryCrBeforeLf
        => /\ lr_status # "failed"
           /\ lr_status = "feeding"
                  => /\ emitted \o line_reader.lines = FedInOneChunk.reader.lines
                     /\ line_reader.remaining_string
                            = FedInOneChunk.reader.remaining_string

C27_Witness ==
    /\ lr_status = "feeding" /\ lr_op = "take_lines"
    /\ fed = S(<<"a", "\r", "\n", "b", "\n">>)
    /\ chunk = S(<<"\n", "b", "\n">>)
    /\ emitted = <<S(<<"a">>), S(<<"b">>)>>
    /\ taken = emitted

\* the lines of text: those a terminator has ended, then the text after the
\* last terminator when there is some
LogicalLines(text) ==
    TerminatedLines(text) \o
        (IF Unterminated(text) # <<>> THEN <<Unterminated(text)>> ELSE <<>>)

\* C28: whenever parse is about to read, its LineReader holds no completed
\* line; and a parse call that returned Ok has passed the lines of the decoded
\* text to read_section, each once and in order.
C28_LinesDrainedEveryChunk ==
    /\ status = "running" => line_reader.lines = <<>>
    /\ ParseReturned /\ result = "Ok" => passed = LogicalLines(Concat(decoded))

C28_Witness ==
    /\ ParseReturned /\ result = "Ok"
    /\ read_counts = <<3, 4, 0>>
    /\ passed = <<S(<<"w">>), S(<<"[", "B", "]">>), S(<<"w">>)>>

\* C29: a read that returns fewer bytes than the buffer holds is the last read
\* of the call.
C29_ShortReadEndsStream ==
    \A i \in 1..(Len(read_counts) - 1) : read_counts[i] = buf_size

\* C30: no line returned by take_lines, and no line held by the reader, is
\* empty.
C30_NoEmptyLine ==
    /\ \A i \in 1..Len(emitted) : emitted[i] # <<>>
    /\ \A i \in 1..Len(line_reader.lines) : line_reader.lines[i] # <<>>

C30_Witness ==
    /\ lr_status = "finalized" /\ lr_op = "take_lines"
    /\ fed = S(<<"a", "\n", "\n", "\r", "\n", "b">>)
    /\ emitted = <<S(<<"a">>), S(<<"b">>)>>

(***************************************************************************)
(* Properties of take_lines, of discarded continuations, of failed calls,  *)
(* of the empty header and of whitespace-only lines.                       *)
(***************************************************************************)
\* a step that calls take_lines
TakeLinesStep == lr_op' = "take_lines"

\* what one call of take_lines does: it returns the lines the reader held, in
\* the order they were pushed, holds none afterwards and keeps the partial text
TakeLinesEffect ==
    /\ taken' = line_reader.lines
    /\ line_reader'.lines = <<>>
    /\ line_reader'.remaining_string = line_reader.remaining_string
    /\ lr_op = "take_lines" => taken' = <<>>

\* C31: take_lines returns every line completed since the take_lines before it,
\* in arrival order, and leaves none behind: after it the lines returned so far
\* are all the lines the fed text has completed, a take_lines that follows a
\* take_lines directly returns the empty sequence, and the buffered partial
\* text is the same before and after the call.
C31_TakeLinesReturnsAll ==
    /\ [](lr_op = "take_lines" /\ lr_status = "feeding"
             => /\ emitted = TerminatedLines(fed)
                /\ line_reader.lines = <<>>)
    /\ [][TakeLinesStep => TakeLinesEffect]_vars

C31_Witness ==
    /\ lr_op = "take_lines" /\ lr_status = "feeding"
    /\ fed = S(<<"a", "\n", "b", "\n", "a", "b">>)
    /\ taken = <<S(<<"a">>), S(<<"b">>)>>
    /\ line_reader.lines = <<>>
    /\ line_reader.remaining_string = S(<<"a", "b">>)

\* text is a contiguous piece of the value of the line read
PieceOfLineValue(text) ==
    \E from \in 1..(Len(LineValue) + 1) :
        \E to \in (from - 1)..Len(LineValue) : text = SubSeq(LineValue, from, to)

\* the call appended to the current section at most one entry, an entry of the
\* key of the line read whose value is a piece of that line
OnlyOwnEntryCommitted ==
    LET before == sr_prev.sections[CurrentName].entries
        after == sections[CurrentName].entries
    IN  /\ OtherSectionsUnchanged
        /\ \/ after = before
           \/ /\ Len(after) = Len(before) + 1
              /\ SubSeq(after, 1, Len(before)) = before
              /\ after[Len(after)].variant = "KeyValue"
              /\ after[Len(after)].key = LineKey
              /\ PieceOfLineValue(after[Len(after)].value.value.text)

\* the continuation the call left pending, if any, is of the line read
OnlyOwnContinuationPending ==
    section_reader.last_entry_value_contd # <<>>
        => /\ section_reader.last_entry_key = LineKey
           /\ PieceOfLineValue(section_reader.last_entry_value_contd)

\* the last call was accepted and read, under a section with a continuation
\* pending, an entry line with =
PendingMetKeyValueLine == KeyValueLine /\ WasPending /\ sr_result = "Ok"

\* the last call read an entry line with = and left a continuation pending
LeftPending == KeyValueLine /\ section_reader.last_entry_value_contd # <<>>

SectionErrors == {"InvalidSectionName", "InvalidQuotedValue", "InvalidContinuation"}

\* C33: a read_section call that returns an error leaves the sections and the
\* reader's current section name, pending key and pending partial value as
\* they were before the call.
C33_ErrorChangesNothing ==
    Called /\ sr_result \in SectionErrors => NothingCommitted /\ ReaderUnchanged

C33_Witness ==
    /\ Called /\ sr_result = "InvalidContinuation"
    /\ sr_line = S(<<"k", "=", "\"", "v", "\"", "a">>)
    /\ WasPending
    /\ section_reader.last_entry_value_contd = S(<<"v">>)
    /\ sections[CurrentName].entries # <<>>

\* the decoded text of the chunks before the last one
PreviousChunks == Concat(SubSeq(decoded, 1, Len(decoded) - 1))

\* line assembly failed on the last chunk decoded
AssemblyFailed == decoded # <<>> /\ HasBareCr(decoded[Len(decoded)])

\* the reader and the sections the lines of the chunks before the last one
\* make of those the call started with
ReplayedPrevious ==
    Replayed(entered.section_reader, entered.sections, TerminatedLines(PreviousChunks))

\* C34: when line assembly fails on a chunk, parse returns ReadLineError and no
\* line of that chunk is passed to read_section, a line the chunk completed
\* before the failure included: the lines passed are the lines of the chunks
\* before it, and the sections and the SectionReader are what those lines made.
C34_FailingChunkPassesNothing ==
    AssemblyFailed
        => /\ status = "idle" /\ result = "ReadLineError"
           /\ passed = TerminatedLines(PreviousChunks)
           /\ sections = ReplayedPrevious.sections
           /\ section_reader = ReplayedPrevious.reader

\* a chunk that completes the line `[[]`, which is no valid header, before its
\* bare CR
C34_Witness ==
    /\ ParseReturned /\ result = "ReadLineError"
    /\ file = S(<<"[", "[", "]", "\n", "\r", "w">>)
    /\ read_counts = <<6>>
    /\ passed = <<>>
    /\ sections = entered.sections

\* the last call read the header with the empty name
EmptyHeader == Called /\ TrimmedLine = <<LBRACKET, RBRACKET>>

\* the sections of before the call with an empty section of the empty name
WithEmptySection ==
    [name \in DOMAIN sr_prev.sections \union {<<>>} |->
        IF name = <<>> THEN InfSection(<<>>, <<>>) ELSE sr_prev.sections[name]]

\* the last call read an entry line while the header `[]` was the last header
\* accepted
AfterEmptyHeader ==
    /\ Called /\ EntryLine
    /\ <<>> \in DOMAIN sr_prev.sections
    /\ CurrentName = <<>>

\* C35: the header `[]` is accepted: it puts an empty section of the empty name
\* into the sections and makes the empty name the current section name, which
\* is the state in which no entry is read, and leaves the pending key and
\* partial value as they were; every entry line read after it, until another
\* header is accepted, changes nothing, and the section of the empty name
\* never holds an entry.
C35_EmptyHeaderAccepted ==
    /\ EmptyHeader
        => /\ sr_result = "Ok"
           /\ sections = WithEmptySection
           /\ section_reader = [sr_prev.reader EXCEPT !.last_section_name = <<>>]
           /\ ~EntriesRead(section_reader)
    /\ AfterEmptyHeader => sr_result = "Ok" /\ NothingCommitted /\ ReaderUnchanged
    /\ <<>> \in DOMAIN sections => sections[<<>>].entries = <<>>

C35_Witness ==
    /\ AfterEmptyHeader /\ WasPending
    /\ sr_line = S(<<"w">>)
    /\ section_reader.last_entry_value_contd = S(<<"v">>)
    /\ DOMAIN sections = {<<>>, S(<<"A">>)}
    /\ sections[S(<<"A">>)].entries = <<>>

\* a non-empty line made only of whitespace
WhitespaceOnly(line) == line # <<>> /\ \A i \in 1..Len(line) : IsWhitespace(line[i])

\* the reader and the sections before and after the i-th line passed
BeforePassed(i) ==
    Replayed(entered.section_reader, entered.sections, SubSeq(passed, 1, i - 1))

AfterPassed(i) ==
    Replayed(entered.section_reader, entered.sections, SubSeq(passed, 1, i))

\* what read_section made of the i-th line passed, a whitespace-only line read
\* under a section: an entry of the empty value, or the pending continuation
\* committed as it is and cleared
WhitespaceLineCommitted(i) ==
    LET reader == BeforePassed(i).reader
        sects == BeforePassed(i).sections
        name == reader.last_section_name
        entry == IF reader.last_entry_value_contd = <<>>
                 THEN OnlyValue(Raw(<<>>))
                 ELSE KeyValue(reader.last_entry_key,
                               Some(Raw(reader.last_entry_value_contd)))
    IN  /\ AfterPassed(i).results[i] = "Ok"
        /\ AfterPassed(i).sections =
               [sects EXCEPT ![name] = InfSection(name, Append(sects[name].entries, entry))]
        /\ AfterPassed(i).reader =
               IF reader.last_entry_value_contd = <<>> THEN reader
               ELSE [reader EXCEPT !.last_entry_value_contd = <<>>,
                                   !.last_entry_key = <<>>]

\* C36: a non-empty line made only of whitespace is emitted by the LineReader
\* and passed to read_section like any other line, and read_section does not
\* skip it: under a section with no continuation pending it appends
\* OnlyValue(Raw("")), and with a continuation (key, partial) pending it
\* appends KeyValue(key, Raw(partial)) and clears the continuation.
C36_WhitespaceLineRead ==
    /\ ParseReturned /\ result = "Ok"
        => SelectSeq(passed, WhitespaceOnly) =
               SelectSeq(LogicalLines(Concat(decoded)), WhitespaceOnly)
    /\ \A i \in 1..Len(passed) :
           WhitespaceOnly(passed[i]) /\ BeforePassed(i).reader.last_section_name # <<>>
               => /\ WhitespaceLineCommitted(i)
                  /\ i = Len(passed)
                         => /\ sections = AfterPassed(i).sections
                            /\ section_reader = AfterPassed(i).reader

C36_Witness ==
    /\ ParseReturned /\ result = "Ok"
    /\ file = <<SPACE>>
    /\ passed = <<(<<SPACE>>)>>
    /\ entered.section_reader.last_entry_key = S(<<"k">>)
    /\ entered.section_reader.last_entry_value_contd = S(<<"v">>)
    /\ DOMAIN sections = {S(<<"A">>)}
    /\ sections[S(<<"A">>)].entries = <<KeyValue(S(<<"k">>), Some(Raw(S(<<"v">>))))>>
    /\ section_reader.last_entry_value_contd = <<>>

=============================================================================
